---- MODULE Spec2Model ----
(***************************************************************************)
(* towerbox.py: a dynamic inventory script that pages through the NetBox   *)
(* device and virtual-machine listings and groups the active hosts by site *)
(* and platform.                                                           *)
(*                                                                         *)
(* JSON values: null is None (the empty sequence), a nested object with    *)
(* one field that the script reads ({"slug": s}, {"value": s},             *)
(* {"address": a}) is the one-element sequence <<s>>.  A key that the      *)
(* record does not hold is a field the TLA+ record does not have.  Python  *)
(* dicts are insertion-ordered association lists.  An address is a         *)
(* sequence of characters, so that split('/') is computed.                 *)
(***************************************************************************)
EXTENDS Integers, Sequences, FiniteSets, TLC

\* ---------------------------------------------------------------- bounds
MaxPages == 2
MaxResults == 2
MaxEntities == 2

\* ---------------------------------------------------------------- values
None == <<>>
Some(v) == <<v>>

Undefined == <<"u", "n", "d", "e", "f", "i", "n", "e", "d">>

Names == {"host1", "host2"}
StatusValues == {None, Some("active"), Some("planned")}
Addresses == {None, Some(<<"1", "0", "/", "8">>), Some(<<"1", "0">>)}
SiteValues == {None, Some("nyc1"), Some("linux")}
PlatformValues == {None, Some("linux")}
RoleValues == {None, Some("web")}
TagValues == {None, Some(<<[slug |-> "prod"]>>)}
NextUrls == {"?offset=1", "?offset=2"}

\* ------------------------------------------------------- entity adapters
Device == 1
VirtualMachine == 2
entity_types == <<Device, VirtualMachine>>
groupings == <<"site", "platform">>

api_url(entity_type) ==
    IF entity_type = Device THEN "/api/dcim/devices/"
    ELSE "/api/virtualization/virtual-machines/"

\* Every raw payload of one kind over the values above.  A record may come
\* without the "site" key.
DevicePayloads ==
    [name : Names, status : StatusValues, primary_ip : Addresses,
     site : SiteValues, platform : PlatformValues,
     device_role : RoleValues, tags : TagValues]
    \cup
    [name : Names, status : StatusValues, primary_ip : Addresses,
     platform : PlatformValues, device_role : RoleValues, tags : TagValues]

VirtualMachinePayloads ==
    [name : Names, status : StatusValues, primary_ip : Addresses,
     site : SiteValues, platform : PlatformValues,
     role : RoleValues, tags : TagValues]
    \cup
    [name : Names, status : StatusValues, primary_ip : Addresses,
     platform : PlatformValues, role : RoleValues, tags : TagValues]

Payloads(entity_type) ==
    IF entity_type = Device THEN DevicePayloads ELSE VirtualMachinePayloads

\* The payloads the listings serve in a whole run: the well-formed record
\* of the scenario, and the records that depart from it.
Well ==
    [status |-> Some("active"), primary_ip |-> Some(<<"1", "0", "/", "8">>),
     site |-> Some("nyc1"), platform |-> Some("linux"),
     tags |-> Some(<<[slug |-> "prod"]>>)]

Broken ==
    [status |-> Some("active"), primary_ip |-> None,
     platform |-> None, tags |-> None]

Shapes ==
    {Well,
     [Well EXCEPT !.site = Some("linux")],
     [Well EXCEPT !.tags = None],
     [Well EXCEPT !.status = Some("planned")],
     [Well EXCEPT !.status = None],
     [Well EXCEPT !.primary_ip = None],
     [Well EXCEPT !.site = None],
     [Well EXCEPT !.platform = None],
     [Well EXCEPT !.site = None, !.platform = None],
     [status |-> Well.status, primary_ip |-> Well.primary_ip,
      platform |-> Well.platform, tags |-> Well.tags],
     Broken,
     [Broken EXCEPT !.status = Some("planned")]}

ReplayShapes == {Well, [Well EXCEPT !.tags = None]}

Named(entity_type, nm, shape) ==
    IF entity_type = Device
    THEN [name |-> nm, device_role |-> Some("web")] @@ shape
    ELSE [name |-> nm, role |-> Some("web")] @@ shape

Records(entity_type) ==
    {Named(entity_type, nm, shape) : nm \in Names, shape \in Shapes}

ReplayRecords(entity_type) ==
    {Named(entity_type, nm, shape) : nm \in Names, shape \in ReplayShapes}

\* str.split('/')[0]
SplitHead(s) ==
    LET cut == {i \in 1..Len(s) : s[i] = "/"}
    IN  IF cut = {} THEN s
        ELSE SubSeq(s, 1, (CHOOSE i \in cut : \A j \in cut : i <= j) - 1)

name(ns_) == ns_.name

\* A null primary address read as the empty string.
ip_address_empty(ns_) ==
    IF ns_.primary_ip = None THEN <<>> ELSE SplitHead(ns_.primary_ip[1])

ip_address(ns_) ==
    IF ns_.primary_ip = None THEN Undefined ELSE SplitHead(ns_.primary_ip[1])

platform(ns_) ==
    IF ns_.platform = None THEN "undefined" ELSE ns_.platform[1]

device_role(ns_) ==
    IF ns_.device_role = None THEN "undefined" ELSE ns_.device_role[1]

role(ns_) ==
    IF ns_.role = None THEN "undefined" ELSE ns_.role[1]

status(ns_) ==
    IF ns_.status = None THEN "undefined" ELSE ns_.status[1]

\* The list comprehension over tags raises TypeError on null tags, and
\* status['value'] does on a null status.
HostvarsRaises(ns_) == ns_.tags = None \/ ns_.status = None

TagSlugs(ns_) == [i \in 1..Len(ns_.tags[1]) |-> ns_.tags[1][i].slug]

\* The single entry of entity.hostvars: its key and its value.
hostvars(entity_type, ns_) ==
    [key |-> name(ns_),
     value |->
        IF entity_type = Device
        THEN [ansible_host |-> ip_address(ns_),
              netbox_device_role |-> device_role(ns_),
              netbox_platform |-> platform(ns_),
              netbox_tags |-> TagSlugs(ns_),
              netbox_status |-> ns_.status[1]]
        ELSE [ansible_host |-> ip_address(ns_),
              netbox_role |-> role(ns_),
              netbox_platform |-> platform(ns_),
              netbox_tags |-> TagSlugs(ns_),
              netbox_status |-> ns_.status[1]]]

\* -------------------------------------------------------------- dicts
Keys(d) == {d[i].key : i \in 1..Len(d)}
Lookup(d, k) == d[CHOOSE i \in 1..Len(d) : d[i].key = k].value

\* d[k] = v
SetItem(d, k, v) ==
    IF k \in Keys(d)
    THEN [i \in 1..Len(d) |-> IF d[i].key = k THEN [key |-> k, value |-> v] ELSE d[i]]
    ELSE Append(d, [key |-> k, value |-> v])

\* A host is added to a group only if the group does not hold it yet.
AppendHostOnce(d, group, host) ==
    IF group \in Keys(d)
    THEN IF \E i \in 1..Len(Lookup(d, group)) : Lookup(d, group)[i] = host
         THEN d
         ELSE SetItem(d, group, Append(Lookup(d, group), host))
    ELSE SetItem(d, group, <<host>>)

\* A host is put in front of the hosts of its group.
PrependHost(d, group, host) ==
    IF group \in Keys(d)
    THEN SetItem(d, group, <<host>> \o Lookup(d, group))
    ELSE SetItem(d, group, <<host>>)

\* ns[device_group]['hosts'] += [name] on a defaultdict of defaultdict(list)
AppendHost(d, group, host) ==
    IF group \in Keys(d)
    THEN SetItem(d, group, Append(Lookup(d, group), host))
    ELSE SetItem(d, group, <<host>>)

\* _meta_ns['hostvars'] on a defaultdict(dict): the key is created by the read
TouchHostvars(m) == IF m = None THEN Some(<<>>) ELSE m

\* _meta_ns['hostvars'].update(entry)
UpdateHostvars(m, entry) == Some(SetItem(TouchHostvars(m)[1], entry.key, entry.value))

\* -------------------------------------------------------------- state
VARIABLES
    pc,          \* where main() stands
    kind,        \* index of entity_type in entity_types
    next_path,   \* the generator's next_path
    pending,     \* items of data['results'] not yet yielded
    yielded,     \* entities yielded so far in this call
    entity,      \* the loop variable of as_ansible_namespace
    ns,          \* group -> hosts
    meta_ns,     \* None, or Some(hostvars)
    stdout,      \* what was printed
    asked,       \* history: the last GET request, Some([kind, path])
    nreq,        \* history: GET requests issued per entity type
    last_next,   \* history: the `next` of the last page received
    nullAt,      \* history: per entity type, the page whose `next` was null
    failed,      \* history: a fetch failed or a body was malformed
    contrib,     \* history: [kind, name, group] per resolved dimension
    run,         \* which call of as_ansible_namespace this is
    tape,        \* the server's answers of the first call, in order
    head,        \* how much of the tape the second call has read
    first        \* the document of the first call

progvars == <<pc, kind, next_path, pending, yielded, entity, ns, meta_ns, stdout>>
histvars == <<asked, nreq, last_next, nullAt, failed, contrib>>
tapevars == <<run, tape, head, first>>
vars == <<progvars, histvars, tapevars>>

NoEntity == [name |-> "-"]
NoRequests == [t \in {Device, VirtualMachine} |-> 0]

Init ==
    /\ pc = "main"
    /\ kind = 1
    /\ next_path = None
    /\ pending = 0
    /\ yielded = 0
    /\ entity = NoEntity
    /\ ns = <<>>
    /\ meta_ns = None
    /\ stdout = None
    /\ asked = None
    /\ nreq = NoRequests
    /\ last_next = None
    /\ nullAt = NoRequests
    /\ failed = FALSE
    /\ contrib = <<>>
    /\ run = 1
    /\ tape = <<>>
    /\ head = 0
    /\ first = None

\* `while next_path != "":` -- a null `next` does not end the loop
NotEmpty(p) == p # Some("")

\* `while next_path:` -- null and the empty string end the loop
Truthy(p) == p # None /\ p # Some("")

\* Where the generator stands once a page's items are used up: the while
\* loop again, the next entity type, or exhausted.
Resume(k, np) ==
    IF Truthy(np) THEN [pc |-> "get", kind |-> k, next_path |-> np]
    ELSE IF k < Len(entity_types)
         THEN [pc |-> "get", kind |-> k + 1,
               next_path |-> Some(api_url(entity_types[k + 1]))]
         ELSE [pc |-> "return", kind |-> k, next_path |-> np]

\* ----------------------------------------------------------- grouping
\* The hostvars are recorded before the grouping is resolved.
GroupStepVarsFirst(st, entity_type, e, grouping) ==
    IF st.raised THEN st
    ELSE LET m1 == IF HostvarsRaises(e) THEN TouchHostvars(st.meta)
                   ELSE UpdateHostvars(st.meta, hostvars(entity_type, e))
         IN  IF grouping \notin DOMAIN e
             THEN [st EXCEPT !.raised = TRUE]
             ELSE IF e[grouping] = None
             THEN [st EXCEPT !.meta = m1]
             ELSE [st EXCEPT !.ns = AppendHost(st.ns, e[grouping][1], name(e)),
                             !.meta = m1]

\* One pass of the try block for one grouping; st = [ns, meta, raised].
GroupStep(st, entity_type, e, grouping) ==
    IF st.raised THEN st
    ELSE IF grouping \notin DOMAIN e
    THEN [st EXCEPT !.raised = TRUE]                  \* KeyError, not caught
    ELSE IF e[grouping] = None
    THEN st                                             \* TypeError, caught
    ELSE LET device_group == e[grouping][1]
             ns1 == AppendHost(st.ns, device_group, name(e))
             m1 == TouchHostvars(st.meta)
         IN  IF HostvarsRaises(e)
             THEN [st EXCEPT !.ns = ns1, !.meta = m1]   \* TypeError, caught
             ELSE [st EXCEPT !.ns = ns1,
                             !.meta = UpdateHostvars(m1, hostvars(entity_type, e))]

\* The filter without the status test.
FilterAddressOnly(e) == ip_address(e) # Undefined

Filter(e) == status(e) = "active" /\ ip_address(e) # Undefined

\* The body of `for entity in self.entities`
LoopBody(st, entity_type, e) ==
    IF Filter(e)
    THEN GroupStep(GroupStep(st, entity_type, e, groupings[1]),
                   entity_type, e, groupings[2])
    ELSE st

\* The namespaces live on the inventory object and are not made anew.
StaleNamespace == [ns |-> ns, meta |-> meta_ns]

\* ns = defaultdict(...); _meta_ns = defaultdict(dict)
NewNamespace == [ns |-> <<>>, meta |-> None]

\* ns.update({'_meta': _meta_ns}); return ns
Document(groups, m) == [groups |-> groups, meta |-> m]

\* ------------------------------------------- what the raw payload says
\* The dimensions a record resolves, read off the raw payload.
Resolved(e) ==
    LET has(g) == g \in DOMAIN e /\ e[g] # None
        one(g) == IF has(g) THEN <<[dim |-> g, group |-> e[g][1]]>> ELSE <<>>
    IN  one("site") \o one("platform")

Passes(e) == e.status = Some("active") /\ e.primary_ip # None

Contributions(entity_type, e) ==
    IF Passes(e)
    THEN [i \in 1..Len(Resolved(e)) |->
            [kind |-> entity_type, name |-> e.name,
             dim |-> Resolved(e)[i].dim, group |-> Resolved(e)[i].group,
             tagged |-> e.tags # None]]
    ELSE <<>>

\* ------------------------------------------------------------ the server
Nexts == {None} \cup {Some(u) : u \in NextUrls}

\* What a GET can bring: no answer, a body without `next`, a body without
\* `results`, or a page (results is the number of items of the page).
Responses ==
    {[error |-> "connection"], [results |-> 0], [next |-> None]}
    \cup [next : Nexts, results : 0..MaxResults]

IsPage(resp) == DOMAIN resp = {"next", "results"}

ReplayResponses ==
    {r \in Responses : IsPage(r) => r.next \in {None, Some("?offset=1")}}

\* ------------------------------------------------------------ actions
\* as_ansible_namespace is entered: fresh namespaces, and the generator
\* stands before its first request.
Enter ==
    /\ pc' = "get"
    /\ ns' = NewNamespace.ns
    /\ meta_ns' = NewNamespace.meta
    /\ kind' = 1
    /\ next_path' = Some(api_url(entity_types[1]))
    /\ pending' = 0
    /\ yielded' = 0
    /\ entity' = NoEntity

\* main(): parse the arguments, then either print the usage or call
\* as_ansible_namespace.
Main ==
    /\ pc = "main"
    /\ \E list \in BOOLEAN :
         IF list
         THEN Enter /\ stdout' = stdout
         ELSE /\ pc' = "usage"
              /\ stdout' = Some("usage")
              /\ UNCHANGED <<kind, next_path, pending, yielded, entity, ns, meta_ns>>
    /\ UNCHANGED <<histvars, tapevars>>

\* A failed request or a malformed body ends the listing quietly.
FetchSwallow(k, np, resp) ==
    IF ~IsPage(resp)
    THEN [pc |-> Resume(k, None).pc, kind |-> Resume(k, None).kind,
          next_path |-> Resume(k, None).next_path, pending |-> 0]
    ELSE IF resp.results > 0
    THEN [pc |-> "body", kind |-> k, next_path |-> resp.next,
          pending |-> resp.results]
    ELSE [pc |-> Resume(k, resp.next).pc, kind |-> Resume(k, resp.next).kind,
          next_path |-> Resume(k, resp.next).next_path, pending |-> 0]

\* One turn of the while loop up to the first yield: the request, the
\* decoding and the reads of data['next'] and data['results'].  A failed
\* request and a body without `next` or `results` raise.
Fetch(k, np, resp) ==
    IF ~IsPage(resp)
    THEN [pc |-> "error", kind |-> k, next_path |-> np, pending |-> 0]
    ELSE IF resp.results > 0
    THEN [pc |-> "body", kind |-> k, next_path |-> resp.next,
          pending |-> resp.results]
    ELSE [pc |-> Resume(k, resp.next).pc, kind |-> Resume(k, resp.next).kind,
          next_path |-> Resume(k, resp.next).next_path, pending |-> 0]

GetResp(resp) ==
    /\ pc = "get"
    /\ asked' = Some([kind |-> entity_types[kind], path |-> next_path])
    /\ nreq' = [nreq EXCEPT ![entity_types[kind]] = @ + 1]
    /\ failed' = (failed \/ ~IsPage(resp))
    /\ last_next' = IF IsPage(resp) THEN resp.next ELSE last_next
    /\ nullAt' = IF IsPage(resp) /\ resp.next = None
                 THEN [nullAt EXCEPT ![entity_types[kind]] =
                           nreq[entity_types[kind]] + 1]
                 ELSE nullAt
    /\ pc' = Fetch(kind, next_path, resp).pc
    /\ kind' = Fetch(kind, next_path, resp).kind
    /\ next_path' = Fetch(kind, next_path, resp).next_path
    /\ pending' = Fetch(kind, next_path, resp).pending
    /\ UNCHANGED <<yielded, entity, ns, meta_ns, stdout, contrib>>

\* One yielded entity: the loop body of as_ansible_namespace, then the
\* generator up to its next yield or request.
BodyOn(e) ==
    /\ pc = "body"
    /\ LET et == entity_types[kind]
           st == LoopBody([ns |-> ns, meta |-> meta_ns, raised |-> FALSE], et, e)
       IN
       /\ entity' = e
       /\ yielded' = yielded + 1
       /\ contrib' = contrib \o Contributions(et, e)
       /\ ns' = st.ns
       /\ meta_ns' = st.meta
       /\ IF st.raised
          THEN /\ pc' = "error"
               /\ UNCHANGED <<kind, next_path, pending>>
          ELSE IF pending > 1
          THEN /\ pending' = pending - 1
               /\ UNCHANGED <<pc, kind, next_path>>
          ELSE /\ pending' = 0
               /\ pc' = Resume(kind, next_path).pc
               /\ kind' = Resume(kind, next_path).kind
               /\ next_path' = Resume(kind, next_path).next_path
    /\ UNCHANGED <<stdout, asked, nreq, last_next, nullAt, failed>>

\* The server's answer to the request the generator is about to make.
Served(resp) ==
    /\ resp \in Responses
    /\ IsPage(resp) =>
         /\ nreq[entity_types[kind]] + 1 >= MaxPages => resp.next = None
         /\ yielded + pending + resp.results <= MaxEntities

Get ==
    /\ \E resp \in Responses : Served(resp) /\ GetResp(resp)
    /\ UNCHANGED tapevars

Body ==
    /\ \E e \in Records(entity_types[kind]) : BodyOn(e)
    /\ UNCHANGED tapevars

\* The generator is exhausted: assemble the document and print it.
Return ==
    /\ pc = "return"
    /\ pc' = "printed"
    /\ stdout' = Some(Document(ns, meta_ns))
    /\ UNCHANGED <<kind, next_path, pending, yielded, entity, ns, meta_ns>>
    /\ UNCHANGED <<histvars, tapevars>>

Next == Main \/ Get \/ Body \/ Return

Spec == Init /\ [][Next]_vars

\* ------------------------------------------------- one entity, any payload
\* What the run has met before the entity: nothing, or the well-formed
\* device host1.
Met == {<<>>, <<Named(Device, "host1", Well)>>}

After(met) ==
    IF met = <<>>
    THEN [ns |-> NewNamespace.ns, meta |-> NewNamespace.meta, raised |-> FALSE]
    ELSE LoopBody([ns |-> NewNamespace.ns, meta |-> NewNamespace.meta,
                   raised |-> FALSE], Device, met[1])

\* The run stands at the last yield of a listing that has one page: of the
\* device listing, or of the virtual-machine listing after a device listing
\* of one page.
InitEntity ==
    /\ pc = "body"
    /\ kind \in 1..Len(entity_types)
    /\ next_path = None
    /\ pending = 1
    /\ \E met \in Met :
         /\ yielded = Len(met)
         /\ entity = IF met = <<>> THEN NoEntity ELSE met[1]
         /\ ns = After(met).ns
         /\ meta_ns = After(met).meta
         /\ contrib = IF met = <<>> THEN <<>> ELSE Contributions(Device, met[1])
    /\ stdout = None
    /\ asked = Some([kind |-> entity_types[kind],
                     path |-> Some(api_url(entity_types[kind]))])
    /\ nreq = [t \in {Device, VirtualMachine} |-> IF t <= entity_types[kind] THEN 1 ELSE 0]
    /\ last_next = None
    /\ nullAt = nreq
    /\ failed = FALSE
    /\ run = 1
    /\ tape = <<>>
    /\ head = 0
    /\ first = None

BodyAny ==
    /\ \E e \in Payloads(entity_types[kind]) : BodyOn(e)
    /\ UNCHANGED tapevars

NextEntity == BodyAny \/ Return

SpecEntity == InitEntity /\ [][NextEntity]_vars

\* ------------------------------------------------------- the same run twice
Page(resp) == [t |-> "page", v |-> resp]
Item(e) == [t |-> "item", v |-> e]

GetLive ==
    /\ run = 1
    /\ \E resp \in ReplayResponses :
         /\ Served(resp)
         /\ GetResp(resp)
         /\ tape' = Append(tape, Page(resp))
    /\ UNCHANGED <<run, head, first>>

BodyLive ==
    /\ run = 1
    /\ \E e \in ReplayRecords(entity_types[kind]) :
         /\ BodyOn(e)
         /\ tape' = Append(tape, Item(e))
    /\ UNCHANGED <<run, head, first>>

\* as_ansible_namespace is called a second time on the same inventory.
Again ==
    /\ pc = "printed"
    /\ run = 1
    /\ run' = 2
    /\ first' = stdout
    /\ head' = 0
    /\ Enter
    /\ stdout' = None
    /\ asked' = None
    /\ nreq' = NoRequests
    /\ last_next' = None
    /\ nullAt' = NoRequests
    /\ contrib' = <<>>
    /\ UNCHANGED <<failed, tape>>

GetReplay ==
    /\ run = 2
    /\ head < Len(tape)
    /\ tape[head + 1].t = "page"
    /\ GetResp(tape[head + 1].v)
    /\ head' = head + 1
    /\ UNCHANGED <<run, tape, first>>

BodyReplay ==
    /\ run = 2
    /\ head < Len(tape)
    /\ tape[head + 1].t = "item"
    /\ BodyOn(tape[head + 1].v)
    /\ head' = head + 1
    /\ UNCHANGED <<run, tape, first>>

NextTwice == Main \/ GetLive \/ BodyLive \/ Return \/ Again \/ GetReplay \/ BodyReplay

SpecTwice == Init /\ [][NextTwice]_vars

\* ------------------------------------------------------------ properties
Range(q) == {q[i] : i \in 1..Len(q)}
Count(q, x) == Cardinality({i \in 1..Len(q) : q[i] = x})

Printed == pc = "printed"
Doc == stdout[1]
DocGroups == Keys(Doc.groups)
DocHosts(g) == Lookup(Doc.groups, g)
DocHostvars == IF Doc.meta = None THEN <<>> ELSE Doc.meta[1]

Groups == Keys(ns)
Hosts(g) == Lookup(ns, g)
Hostvars == IF meta_ns = None THEN <<>> ELSE meta_ns[1]

\* The loop body has run on the entity and the run has left the listing.
Processed == entity # NoEntity /\ pc \in {"get", "return", "printed"} /\ pending = 0

\* The names the history says group g received, in order.
RECURSIVE NamesFor(_, _)
NamesFor(c, g) ==
    IF c = <<>> THEN <<>>
    ELSE (IF Head(c).group = g THEN <<Head(c).name>> ELSE <<>>) \o NamesFor(Tail(c), g)

\* C1: in the returned document every host name in the hosts list of any
\* group has an entry under _meta.hostvars.
C1_HostsHaveHostvars ==
    Printed => \A g \in DocGroups : Range(DocHosts(g)) \subseteq Keys(DocHostvars)

\* C2: a record whose status is not "active" (a null status included) adds
\* its name to no group and no entry to the hostvars, whatever its other
\* fields are, and processing it raises nothing.
C2_InactiveExcluded ==
    [][(pc = "body" /\ entity'.status # Some("active"))
         => (ns' = ns /\ meta_ns' = meta_ns /\ pc' # "error")]_vars

\* A record with a null status, no site key and null tags met a namespace
\* that holds hosts.
C2_Witness ==
    /\ Processed
    /\ entity.status = None
    /\ "site" \notin DOMAIN entity
    /\ entity.tags = None
    /\ Groups # {}

\* C3: a record with a null primary address has the ip_address
\* "undefined" and adds its name to no group and no entry to the hostvars,
\* even when its status is "active".
C3_NoAddressExcluded ==
    [][(pc = "body" /\ entity'.primary_ip = None)
         => (/\ ip_address(entity') = Undefined
             /\ ns' = ns
             /\ meta_ns' = meta_ns)]_vars

\* An active record with a null primary address met a namespace that
\* holds hosts.
C3_Witness ==
    /\ Processed
    /\ entity.primary_ip = None
    /\ entity.status = Some("active")
    /\ "site" \in DOMAIN entity /\ entity.site # None
    /\ Groups # {}

\* The name has a contribution through site and one through platform, and
\* every record of that name came with its tags.
InTwo(n) ==
    /\ \E i \in 1..Len(contrib) : contrib[i].name = n /\ contrib[i].dim = "site"
    /\ \E i \in 1..Len(contrib) : contrib[i].name = n /\ contrib[i].dim = "platform"
    /\ \A i \in 1..Len(contrib) : contrib[i].name = n => contrib[i].tagged

\* C4 as claimed: a host grouped through site and through platform is in
\* each hosts list that holds it exactly once, and has exactly one entry
\* under _meta.hostvars.  (Stated for the hosts whose records all came with
\* tags, whose hostvars are read without an error.)
C4_ExactlyOnce ==
    Printed =>
      \A n \in Names : InTwo(n) =>
        /\ \A g \in DocGroups : n \in Range(DocHosts(g)) => Count(DocHosts(g), n) = 1
        /\ Cardinality({i \in 1..Len(DocHostvars) : DocHostvars[i].key = n}) = 1

\* C4 as amended: a host name is in a group's hosts list once per record
\* and dimension that resolved to the group, and _meta.hostvars never
\* holds two entries for one host name.
C4_OncePerContribution ==
    Printed =>
      /\ \A n \in Names : \A g \in DocGroups \cup {contrib[i].group : i \in 1..Len(contrib)} :
           (IF g \in DocGroups THEN Count(DocHosts(g), n) ELSE 0)
             = Cardinality({i \in 1..Len(contrib) :
                              contrib[i].name = n /\ contrib[i].group = g})
      /\ \A n \in Names :
           Cardinality({i \in 1..Len(DocHostvars) : DocHostvars[i].key = n}) <= 1

\* host1 is grouped through site and platform, once in nyc1, twice in
\* linux, with one hostvars entry.
C4_Witness ==
    /\ Printed
    /\ InTwo("host1")
    /\ "nyc1" \in DocGroups /\ Count(DocHosts("nyc1"), "host1") = 1
    /\ "linux" \in DocGroups /\ Count(DocHosts("linux"), "host1") = 2
    /\ Cardinality({i \in 1..Len(DocHostvars) : DocHostvars[i].key = "host1"}) = 1

\* C5: a listing whose page k is the first with a null `next` gets exactly
\* k requests, the first to the api_url and each later one to the `next`
\* of the page before, none after the null `next`; then the generator
\* turns to the next kind or is exhausted.
C5_ExactlyKRequests ==
    /\ [](\A t \in Range(entity_types) : nullAt[t] # 0 => nreq[t] = nullAt[t])
    /\ [](pc = "get" => nullAt[entity_types[kind]] = 0)
    /\ [][nreq' # nreq =>
            LET t == asked'[1].kind
            IN  /\ nreq' = [nreq EXCEPT ![t] = @ + 1]
                /\ nullAt[t] = 0
                /\ asked'[1].path = IF nreq[t] = 0 THEN Some(api_url(t))
                                    ELSE last_next]_vars

\* The device listing took two requests, the second page had the null
\* `next`, and the generator is at the virtual machines.
C5_Witness ==
    /\ nreq[Device] = 2
    /\ nullAt[Device] = 2
    /\ entity_types[kind] = VirtualMachine
    /\ pc = "get"

\* C6: for an entity that passes the filter, a grouping that cannot be
\* resolved (a null value or a missing key) is skipped: nothing is raised
\* and the entity lands in no group but those it resolves.
C6_UnresolvedSkipped ==
    [][(pc = "body" /\ Passes(entity'))
         => (/\ pc' # "error"
             /\ Keys(ns') \subseteq
                  Keys(ns) \cup {Resolved(entity')[i].group :
                                   i \in 1..Len(Resolved(entity'))})]_vars

\* C7: a document is printed only after both listings were paged to a
\* null `next`; after a failed request or a malformed body the run stands
\* in the error and has printed nothing.
C7_NoPartialResult ==
    /\ Printed => \A t \in Range(entity_types) : nullAt[t] # 0 /\ nreq[t] = nullAt[t]
    /\ failed => pc = "error" /\ stdout = None
    /\ stdout # None => pc \in {"printed", "usage"}

\* A request failed after hosts had been grouped.
C7_Witness ==
    /\ failed
    /\ Groups # {}
    /\ nreq[VirtualMachine] > 0

\* C8: a second call over the same pages and records returns the document
\* the first call returned.
C8_SameDocumentTwice ==
    (run = 2 /\ Printed) => (stdout = first /\ head = Len(tape))

\* The second call returned a document with a group of two hosts.
C8_Witness ==
    /\ run = 2
    /\ Printed
    /\ \E g \in DocGroups : Len(DocHosts(g)) >= 2

\* C9: every host name keyed in the hostvars is in the hosts list of some
\* group, no group has an empty hosts list, and an entity that passes the
\* filter and resolves no grouping leaves hostvars and groups as they were.
C9_HostvarsOnlyForGrouped ==
    /\ [](/\ \A n \in Keys(Hostvars) : \E g \in Groups : n \in Range(Hosts(g))
          /\ \A g \in Groups : Hosts(g) # <<>>
          /\ Printed => Doc = Document(ns, meta_ns))
    /\ [][(pc = "body" /\ Passes(entity') /\ Resolved(entity') = <<>>)
            => (ns' = ns /\ meta_ns' = meta_ns)]_vars

\* host2 passed the filter with null site and platform; the document
\* printed holds host1 only.
C9_Witness ==
    /\ Printed
    /\ entity.name = "host2"
    /\ Passes(entity)
    /\ "site" \in DOMAIN entity
    /\ Resolved(entity) = <<>>
    /\ Keys(DocHostvars) = {"host1"}

\* C10: the hosts list of every group holds the names in the order the
\* entities were met, devices before virtual machines; no virtual-machine
\* page is requested before the device listing ended and its records were
\* processed, and a later page of a kind is the `next` of the page before.
C10_EncounterOrder ==
    /\ [](Printed =>
            /\ DocGroups = {contrib[i].group : i \in 1..Len(contrib)}
            /\ \A g \in DocGroups : DocHosts(g) = NamesFor(contrib, g)
            /\ \A i, j \in 1..Len(contrib) :
                 i <= j => contrib[i].kind <= contrib[j].kind)
    /\ [][nreq' # nreq =>
            /\ pending = 0
            /\ asked'[1].kind = VirtualMachine => nullAt[Device] # 0
            /\ nreq[asked'[1].kind] > 0 => asked'[1].path = last_next]_vars

\* The device host2 and then the virtual machine host1 were grouped in
\* nyc1, each from a second page.
C10_Witness ==
    /\ Printed
    /\ "nyc1" \in DocGroups
    /\ DocHosts("nyc1") = <<"host2", "host1">>
    /\ \E i, j \in 1..Len(contrib) : contrib[i].kind = Device /\ contrib[j].kind = VirtualMachine
    /\ nreq[Device] = 2
    /\ nreq[VirtualMachine] = 2

\* Violated by the whole runs: they reach the states the one-entity runs
\* start from.
NoEntityStart == ~InitEntity

====
